---- MODULE Spec2Model ----
(***************************************************************************)
(* A model of src/script.js, the AI news aggregator page script.           *)
(*                                                                         *)
(* One page load runs init() once (DOMContentLoaded).  init() shows the    *)
(* loader, calls fetchAllNews(), which starts every source of the          *)
(* `sources` array and awaits Promise.all over them; the continuation      *)
(* flattens, sorts and returns the list, and init() renders it, or         *)
(* displayError() shows the banner when the await throws.                  *)
(*                                                                         *)
(* JavaScript runs each task with its microtasks to completion, so one     *)
(* action is one task: the DOMContentLoaded handler up to its first        *)
(* await, or one source's settlement together with every promise reaction  *)
(* it triggers.                                                            *)
(*                                                                         *)
(* An article keeps the two fields the control flow reads: title and       *)
(* publishedAt.  A publishedAt string "2024-10-DDTHH:MM:00Z" is the triple *)
(* <<DD, HH, MM>>; a string Date cannot parse is <<>>.                     *)
(***************************************************************************)
EXTENDS Integers, Sequences, FiniteSets, TLC

VARIABLES
    pc,            \* position of init(): "unloaded", "awaiting", "done"
    loader,        \* loader.style.display
    errorDisplay,  \* errorMessageContainer.style.display
    errorText,     \* errorMessageContainer.textContent
    newsContainer, \* newsContainer.innerHTML
    promise,       \* state of each source's promise
    calls,         \* how often each source was invoked on this page
    outcome,       \* how fetchAllNews() settled: "none", "resolved", "rejected"
    articles,      \* the list fetchAllNews() returned
    remote,        \* what each source answers with when its timer fires
    cache,         \* the persisted cache slot of the browser profile
    atCall,        \* the cache slot and the clock when fetchAllNews() was called
    now,           \* wall clock, in hours
    loads,         \* page loads so far
    history,       \* the successful calls of fetchAllNews() so far, oldest first
    probe          \* arguments and result of the last isFresh evaluation

vars == <<pc, loader, errorDisplay, errorText, newsContainer, promise, calls,
          outcome, articles, remote, cache, atCall, now, loads, history, probe>>

-----------------------------------------------------------------------------
(* Bounds *)

MaxLen == 2

MaxLoads == 2

MaxTime == 9

MaxProbe == 5

-----------------------------------------------------------------------------
(* Articles and sources *)

InvalidDate == <<>>

LLMArticle ==
    [title |-> "New Breakthrough in Large Language Models Allows for Real-Time Reasoning",
     publishedAt |-> <<26, 18, 0>>]

FilmArticle ==
    [title |-> "Generative AI Creates Award-Winning Short Film",
     publishedAt |-> <<26, 14, 30>>]

AGIArticle ==
    [title |-> "Is AGI Closer Than We Think? A Deep Dive",
     publishedAt |-> <<27, 9, 0>>]

FineTuneArticle ==
    [title |-> "How to Fine-Tune Your Own AI Model with Public Datasets",
     publishedAt |-> <<25, 11, 0>>]

UndatedArticle == [title |-> "", publishedAt |-> InvalidDate]

ArticleUniverse == {LLMArticle, AGIArticle, UndatedArticle}

ArticleLists == UNION {[1..k -> ArticleUniverse] : k \in 0..MaxLen}

Success(list) == [ok |-> TRUE, articles |-> list, message |-> "", nullish |-> FALSE]

\* A rejection with an Error whose message is msg.
Failure(msg) == [ok |-> FALSE, articles |-> <<>>, message |-> msg, nullish |-> FALSE]

\* A rejection with no reason: reject(), reject(undefined), reject(null).
NullishFailure == [ok |-> FALSE, articles |-> <<>>, message |-> "", nullish |-> TRUE]

Failures == {Failure("Network error"), Failure(""), NullishFailure}

mockFetchAIHeadlines == Success(<<LLMArticle, FilmArticle>>)

mockFetchTechBlogs == Success(<<AGIArticle, FineTuneArticle>>)

SourceIds == {"mockFetchAIHeadlines", "mockFetchTechBlogs"}

sourcesFirstOnly == <<"mockFetchAIHeadlines">>

sources == <<"mockFetchAIHeadlines", "mockFetchTechBlogs">>

MockFeed == [s \in SourceIds |->
                IF s = "mockFetchAIHeadlines" THEN mockFetchAIHeadlines
                ELSE mockFetchTechBlogs]

Range(seq) == {seq[i] : i \in 1..Len(seq)}


-----------------------------------------------------------------------------
(* fetchAllNews: the pure steps *)

\* new Date(publishedAt) is an Invalid Date (time value NaN) for a string it
\* cannot parse.
IsInvalidDate(publishedAt) == Len(publishedAt) # 3

\* The time value of new Date(publishedAt), in minutes since the start of the month.
DateValue(publishedAt) == (publishedAt[1] * 24 + publishedAt[2]) * 60 + publishedAt[3]

compareAscending(a, b) ==
    IF IsInvalidDate(a.publishedAt) \/ IsInvalidDate(b.publishedAt)
    THEN 0
    ELSE DateValue(a.publishedAt) - DateValue(b.publishedAt)

\* (a, b) => new Date(b.publishedAt) - new Date(a.publishedAt); Array.prototype.sort
\* reads a NaN from the comparator as +0.
compareFn(a, b) ==
    IF IsInvalidDate(a.publishedAt) \/ IsInvalidDate(b.publishedAt)
    THEN 0
    ELSE DateValue(b.publishedAt) - DateValue(a.publishedAt)

RECURSIVE flatUnique(_)
flatUnique(results) ==
    IF Len(results) = 0 THEN <<>>
    ELSE LET rest == flatUnique(Tail(results))
         IN  SelectSeq(Head(results), LAMBDA a : a \notin Range(rest)) \o rest

\* results.flat(): the arrays of `results` one after the other.
RECURSIVE flat(_)
flat(results) ==
    IF Len(results) = 0 THEN <<>>
    ELSE Head(results) \o flat(Tail(results))

\* One step of a stable sort: x goes behind every element that does not sort
\* after it.
InsertStable(sorted, x) ==
    LET p == Cardinality({i \in 1..Len(sorted) : compareFn(sorted[i], x) <= 0})
    IN  SubSeq(sorted, 1, p) \o <<x>> \o SubSeq(sorted, p + 1, Len(sorted))

RECURSIVE StableSort(_)
StableSort(list) ==
    IF Len(list) = 0 THEN <<>>
    ELSE InsertStable(StableSort(SubSeq(list, 1, Len(list) - 1)), list[Len(list)])

Reorderings(list) ==
    {[i \in 1..Len(list) |-> list[p[i]]] : p \in Permutations(1..Len(list))}

\* allArticles.sort(compareFn).  The sort is stable, so a consistent comparator
\* fixes the order.  With an Invalid Date in the list the comparator is not
\* consistent and the order is implementation-defined: any reordering.
sortOutcomes(list) ==
    IF \A i \in 1..Len(list) : ~IsInvalidDate(list[i].publishedAt)
    THEN {StableSort(list)}
    ELSE Reorderings(list)

PromiseAllSettled(ps) ==
    IF \A i \in 1..Len(sources) : ps[sources[i]] \in {"fulfilled", "rejected"}
    THEN "fulfilled"
    ELSE "pending"

PromiseRace(ps) ==
    IF \E i \in 1..Len(sources) : ps[sources[i]] = "rejected" THEN "rejected"
    ELSE IF \E i \in 1..Len(sources) : ps[sources[i]] = "fulfilled" THEN "fulfilled"
    ELSE "pending"

\* Promise.all over the promises of `sources`: rejected once one of them is,
\* fulfilled once all of them are.
PromiseAll(ps) ==
    IF \E i \in 1..Len(sources) : ps[sources[i]] = "rejected" THEN "rejected"
    ELSE IF \A i \in 1..Len(sources) : ps[sources[i]] = "fulfilled" THEN "fulfilled"
    ELSE "pending"

\* The values Promise.all fulfils with, in the order of `sources`.
resultsOf(ps) ==
    [i \in 1..Len(sources) |->
        IF ps[sources[i]] = "fulfilled" THEN remote[sources[i]].articles ELSE <<>>]

-----------------------------------------------------------------------------
(* Presentation *)

Blank == [kind |-> "blank", cards |-> <<>>]

NoneFound == [kind |-> "none_found", cards |-> <<>>]

Card(article) ==
    [title    |-> IF article.title = "" THEN "Untitled Article" ELSE article.title,
     datetime |-> article.publishedAt]

renderArticles(list) ==
    IF Len(list) = 0 THEN NoneFound
    ELSE [kind |-> "cards", cards |-> [i \in 1..Len(list) |-> Card(list[i])]]

\* What displayError(message) leaves in the loader and the error banner.
displayError(message) ==
    [loader       |-> "none",
     errorDisplay |-> "block",
     errorText    |-> <<"Failed to load news: ", message, ". Please try again later.">>]

\* error.message || 'An unknown error occurred', for an error that is an object;
\* reading .message of null or undefined throws a TypeError instead.
messageOf(error) ==
    IF error.message = "" THEN "An unknown error occurred" ELSE error.message

-----------------------------------------------------------------------------
(* Cache Store *)

MAX_AGE == 8

Absent == [present |-> FALSE, articles |-> <<>>, fetchedAtEpochMs |-> 0]

Entry(list, at) == [present |-> TRUE, articles |-> list, fetchedAtEpochMs |-> at]

isFreshInclusive(entry, nowEpochMs, maxAgeMs) ==
    entry.present /\ nowEpochMs - entry.fetchedAtEpochMs <= maxAgeMs

isFresh(entry, nowEpochMs, maxAgeMs) ==
    entry.present /\ nowEpochMs - entry.fetchedAtEpochMs < maxAgeMs


-----------------------------------------------------------------------------
(* Initial states *)

\* Every answer a source may give: any bounded list, a failure, or what the
\* shipped mocks answer.
Responses ==
    {Success(list) : list \in ArticleLists} \cup Failures
        \cup {mockFetchAIHeadlines, mockFetchTechBlogs}

\* The answers of the shipped mocks, an empty feed, and the two failures.
SmallResponses(s) == {MockFeed[s], Success(<<>>), Success(<<UndatedArticle>>)} \cup Failures

CacheStates == {Absent, Entry(<<FineTuneArticle>>, 0)}

NoProbe == [done |-> FALSE, entry |-> Absent, now |-> 0, maxAge |-> 0, result |-> FALSE]

InitPage ==
    /\ pc = "unloaded"
    /\ loader = "css"
    /\ errorDisplay = "css"
    /\ errorText = <<>>
    /\ newsContainer = Blank
    /\ promise = [s \in SourceIds |-> "unstarted"]
    /\ calls = [s \in SourceIds |-> 0]
    /\ outcome = "none"
    /\ articles = <<>>
    /\ atCall = [cache |-> Absent, now |-> 0]

InitRest ==
    /\ cache \in CacheStates
    /\ now = 0
    /\ loads = 1
    /\ history = <<>>
    /\ probe = NoProbe

Init ==
    /\ InitPage
    /\ InitRest
    /\ remote \in [SourceIds -> Responses]

InitSmall ==
    /\ InitPage
    /\ InitRest
    /\ remote \in {f \in [SourceIds -> UNION {SmallResponses(s) : s \in SourceIds}] :
                      \A s \in SourceIds : f[s] \in SmallResponses(s)}

-----------------------------------------------------------------------------
(* Actions *)

\* The DOMContentLoaded handler: init() up to the await inside fetchAllNews().
init ==
    /\ pc = "unloaded"
    /\ loader' = "block"
    /\ errorDisplay' = "none"
    /\ newsContainer' = Blank
    /\ promise' = [s \in SourceIds |->
                      IF s \in Range(sources) THEN "pending" ELSE promise[s]]
    /\ calls' = [s \in SourceIds |->
                    IF s \in Range(sources) THEN calls[s] + 1 ELSE calls[s]]
    /\ atCall' = [cache |-> cache, now |-> now]
    /\ pc' = "awaiting"
    /\ UNCHANGED <<errorText, outcome, articles, remote, cache, now, loads, history, probe>>

\* The rest of fetchAllNews() and of init()'s try block, once Promise.all fulfils.
Continue(ps) ==
    \E sorted \in sortOutcomes(flat(resultsOf(ps))) :
        /\ outcome' = "resolved"
        /\ articles' = sorted
        /\ newsContainer' = renderArticles(sorted)
        /\ loader' = "none"
        /\ pc' = "done"
        /\ history' = Append(history, [articles |-> sorted, calledAt |-> atCall.now,
                                       at |-> now,
                                       invoked |-> {s \in SourceIds : calls[s] > 0}])
        /\ UNCHANGED <<errorDisplay, errorText>>

\* init()'s catch block, once Promise.all rejects with `error`.  For a nullish
\* error, error.message throws before displayError is called: init() ends with
\* the loader and the banner as the try block left them.
Catch(error) ==
    IF error.nullish
    THEN /\ outcome' = "rejected"
         /\ pc' = "done"
         /\ UNCHANGED <<loader, errorDisplay, errorText, articles, newsContainer, history>>
    ELSE LET shown == displayError(messageOf(error))
         IN  /\ outcome' = "rejected"
             /\ loader' = shown.loader
             /\ errorDisplay' = shown.errorDisplay
             /\ errorText' = shown.errorText
             /\ pc' = "done"
             /\ UNCHANGED <<articles, newsContainer, history>>

\* The promise reactions that run when source s has settled, leaving the
\* promises as ps.
Reactions(ps, s) ==
    IF pc = "awaiting" /\ PromiseAll(ps) = "fulfilled" THEN Continue(ps)
    ELSE IF pc = "awaiting" /\ PromiseAll(ps) = "rejected" THEN Catch(remote[s])
    ELSE UNCHANGED <<pc, loader, errorDisplay, errorText, newsContainer,
                     outcome, articles, history>>

\* The timer of source s fires and resolves its promise.
mockResolve(s) ==
    /\ promise[s] = "pending"
    /\ remote[s].ok
    /\ promise' = [promise EXCEPT ![s] = "fulfilled"]
    /\ Reactions(promise', s)
    /\ UNCHANGED <<calls, remote, cache, atCall, now, loads, probe>>

\* Source s fails: its promise rejects.
sourceReject(s) ==
    /\ promise[s] = "pending"
    /\ ~remote[s].ok
    /\ promise' = [promise EXCEPT ![s] = "rejected"]
    /\ Reactions(promise', s)
    /\ UNCHANGED <<calls, remote, cache, atCall, now, loads, probe>>

\* The page is loaded again: the script starts over, the profile's storage stays.
Reload ==
    /\ pc # "unloaded"
    /\ loads < MaxLoads
    /\ loads' = loads + 1
    /\ pc' = "unloaded"
    /\ loader' = "css"
    /\ errorDisplay' = "css"
    /\ errorText' = <<>>
    /\ newsContainer' = Blank
    /\ promise' = [s \in SourceIds |-> "unstarted"]
    /\ calls' = [s \in SourceIds |-> 0]
    /\ outcome' = "none"
    /\ articles' = <<>>
    /\ UNCHANGED <<remote, cache, atCall, now, history, probe>>

Tick ==
    /\ now < MaxTime
    /\ now' = now + 1
    /\ UNCHANGED <<pc, loader, errorDisplay, errorText, newsContainer, promise, calls,
                   outcome, articles, remote, cache, atCall, loads, history, probe>>

\* One evaluation of isFresh.
Probe ==
    /\ \E e \in {Absent} \cup {Entry(<<FineTuneArticle>>, at) : at \in 0..MaxProbe},
          t \in 0..(2 * MaxProbe), m \in 1..MaxProbe :
            probe' = [done |-> TRUE, entry |-> e, now |-> t, maxAge |-> m,
                      result |-> isFresh(e, t, m)]
    /\ UNCHANGED <<pc, loader, errorDisplay, errorText, newsContainer, promise, calls,
                   outcome, articles, remote, cache, atCall, now, loads, history>>

Next ==
    \/ init
    \/ \E s \in SourceIds : mockResolve(s)
    \/ \E s \in SourceIds : sourceReject(s)

Spec == Init /\ [][Next]_vars

\* The event loop runs a task whenever one is ready: DOMContentLoaded is
\* delivered, started timers fire and requests end, so all sources settle.
FairSpec == InitSmall /\ [][Next]_vars /\ WF_vars(Next)

\* The page as shipped, over several loads: the two mocks answer with their
\* fixed lists and never fail.
InitSession ==
    /\ InitPage
    /\ InitRest
    /\ remote = MockFeed

SessionNext ==
    \/ init
    \/ \E s \in SourceIds : mockResolve(s)
    \/ Reload
    \/ Tick

SessionSpec == InitSession /\ [][SessionNext]_vars

InitFresh ==
    /\ InitPage
    /\ InitRest
    /\ cache = Absent
    /\ remote = MockFeed

FreshSpec == InitFresh /\ [][Probe]_vars


-----------------------------------------------------------------------------
(* Properties *)

Settled(s) == promise[s] \in {"fulfilled", "rejected"}

Count(list, a) == Cardinality({i \in 1..Len(list) : list[i] = a})

RECURSIVE SumOver(_, _)
SumOver(S, list) ==
    IF S = {} THEN 0
    ELSE LET s == CHOOSE x \in S : TRUE
         IN  Len(list[s]) + SumOver(S \ {s}, list)

RECURSIVE CountOver(_, _, _)
CountOver(S, list, a) ==
    IF S = {} THEN 0
    ELSE LET s == CHOOSE x \in S : TRUE
         IN  Count(list[s], a) + CountOver(S \ {s}, list, a)

\* What the sources answered with, per source.
Answers == [s \in SourceIds |-> remote[s].articles]

AnsweredArticles == UNION {Range(Answers[s]) : s \in SourceIds}

\* Every publishedAt among the answers parses, and no two answered articles
\* (counting repeats) share a timestamp.
DistinctParseable ==
    /\ \A a \in AnsweredArticles : ~IsInvalidDate(a.publishedAt)
    /\ \A a \in AnsweredArticles : CountOver(SourceIds, Answers, a) = 1
    /\ \A a, b \in AnsweredArticles :
          a # b => DateValue(a.publishedAt) # DateValue(b.publishedAt)

\* C1: a call of fetchAllNews made while the cache holds a fresh entry invokes
\* no source and returns the cached list verbatim.
C1_CacheShortCircuit ==
    (pc # "unloaded" /\ isFresh(atCall.cache, atCall.now, MAX_AGE)) =>
        /\ \A s \in SourceIds : calls[s] = 0
        /\ outcome = "resolved" => articles = atCall.cache.articles

\* C2: once a source has failed, fetchAllNews has failed: no list is returned,
\* whatever the other sources answered, and the cache entry is as it was
\* before the call.
C2_FailFast ==
    (\E s \in SourceIds : promise[s] = "rejected") =>
        /\ outcome = "rejected"
        /\ articles = <<>>
        /\ newsContainer.kind # "cards"
        /\ cache = atCall.cache

C2_Witness ==
    /\ \E s \in SourceIds : promise[s] = "rejected"
    /\ \E s \in SourceIds : promise[s] = "fulfilled" /\ Len(remote[s].articles) > 0
    /\ cache.present

\* C3: when the answered articles have distinct, parseable publishedAt values,
\* the returned list is strictly descending by timestamp.
C3_SortOrder ==
    (outcome = "resolved" /\ DistinctParseable) =>
        \A i \in 1..(Len(articles) - 1) :
            DateValue(articles[i].publishedAt) > DateValue(articles[i + 1].publishedAt)

C3_Witness ==
    /\ outcome = "resolved"
    /\ DistinctParseable
    /\ Len(articles) >= 3
    /\ \A s \in SourceIds : Len(remote[s].articles) > 0
    /\ articles # flat(resultsOf(promise))

\* C4: when every source succeeds, the returned list is a permutation of the
\* sources' answers put together: same length, every article as often as the
\* sources answered it.
C4_MergeComplete ==
    outcome = "resolved" =>
        /\ Len(articles) = SumOver(SourceIds, Answers)
        /\ \A a \in AnsweredArticles \cup Range(articles) :
              Count(articles, a) = CountOver(SourceIds, Answers, a)

C4_Witness ==
    /\ outcome = "resolved"
    /\ \E a \in AnsweredArticles : \A s \in SourceIds : a \in Range(Answers[s])
    /\ \E a \in AnsweredArticles : IsInvalidDate(a.publishedAt)
    /\ Len(articles) = 2 * MaxLen

\* C6: for an entry written at T and a max-age M, isFresh is true at every t
\* with T <= t < T + M, false at every t >= T + M, and false with no entry.
C6_Freshness ==
    probe.done =>
        LET T == probe.entry.fetchedAtEpochMs
            t == probe.now
            M == probe.maxAge
        IN  /\ (probe.entry.present /\ T <= t /\ t < T + M) => probe.result
            /\ (probe.entry.present /\ t >= T + M) => ~probe.result
            /\ ~probe.entry.present => ~probe.result

C6_Witness ==
    /\ probe.done
    /\ probe.entry.present
    /\ probe.entry.fetchedAtEpochMs > 0
    /\ probe.now = probe.entry.fetchedAtEpochMs + probe.maxAge
    /\ ~probe.result

\* C7: a successful call made within the freshness window of the successful
\* call before it returns the same list and invokes no source.
C7_IdempotentReadThrough ==
    \A i \in 1..(Len(history) - 1) :
        (history[i + 1].calledAt - history[i].at < MAX_AGE) =>
            /\ history[i + 1].articles = history[i].articles
            /\ history[i + 1].invoked = {}

\* C8 as stated: fetchAllNews completes, with a result or with a failure, only
\* once every source has settled.
C8_JoinAllBarrier ==
    outcome # "none" => \A s \in SourceIds : Settled(s)

\* C8 as amended: fetchAllNews returns a result, merged and sorted, only once
\* every source has fulfilled; a failure is delivered as soon as one source
\* has failed.
C8_JoinBeforeResult ==
    /\ outcome = "resolved" => \A s \in SourceIds : promise[s] = "fulfilled"
    /\ articles # <<>> => \A s \in SourceIds : promise[s] = "fulfilled"
    /\ outcome = "rejected" => \E s \in SourceIds : promise[s] = "rejected"

C8_Witness ==
    /\ outcome = "resolved"
    /\ \A s \in SourceIds : promise[s] = "fulfilled" /\ Len(remote[s].articles) > 0

\* C9: every configured source is started, once, before fetchAllNews waits, so
\* no source settles while another has not been started, in whatever order
\* they finish.
C9_FanOut ==
    /\ \A s \in SourceIds : calls[s] <= 1
    /\ pc # "unloaded" => \A s \in SourceIds : calls[s] = 1 /\ promise[s] # "unstarted"
    /\ (\E s \in SourceIds : Settled(s)) => \A s \in SourceIds : promise[s] # "unstarted"

C9_Witness ==
    /\ pc = "awaiting"
    /\ promise["mockFetchTechBlogs"] = "fulfilled"
    /\ promise["mockFetchAIHeadlines"] = "pending"
    /\ \A s \in SourceIds : calls[s] = 1

Succeeded ==
    /\ outcome = "resolved"
    /\ loader = "none"
    /\ errorDisplay = "none"
    /\ newsContainer = renderArticles(articles)

Failed ==
    /\ outcome = "rejected"
    /\ loader = "none"
    /\ errorDisplay = "block"
    /\ errorText # <<>>
    /\ newsContainer = Blank

\* C10: every run of init, given that the sources settle, ends with the loader
\* hidden in exactly one of two states, success (banner hidden, list rendered)
\* or failure (banner shown with a message, nothing rendered); the banner is
\* never shown together with rendered articles.
C10_FinalPresentation ==
    /\ [](pc = "done" => (Succeeded \/ Failed) /\ ~(Succeeded /\ Failed))
    /\ [](~(errorDisplay = "block" /\ newsContainer.kind = "cards"))
    /\ <>(pc = "done" /\ loader = "none")

====
